---------------------------- MODULE Spec2Model ----------------------------
(***************************************************************************)
(* A model of the AI support dashboard: the server's knowledge service and *)
(* its router (lazy article embeddings, cosine-similarity search), the AI  *)
(* router (schema validation, provider calls with fallbacks), and the      *)
(* client's performance hooks (useCache / withCache, useDebounce).         *)
(*                                                                         *)
(* Each component has its own specification over the shared variables; a   *)
(* specification leaves the variables of the other components unchanged.   *)
(***************************************************************************)
EXTENDS Integers, Sequences, FiniteSets, TLC

(***************************************************************************)
(* Bounds of the model.                                                    *)
(***************************************************************************)
\* Number of built-in articles modelled (the code holds five; the loops over
\* them are uniform in the article).
NumArticles == 3
\* Number of searchArticles calls started in one behaviour.
MaxSearches == 3
\* Number of chat-completion requests sent in one behaviour.
MaxChatCalls == 2
\* Longest provider reply, in tokens.
MaxTextLen == 3
\* Last instant of the client's clock.
MaxTime == 3
\* Number of calls of a function wrapped by withCache in one behaviour.
MaxCacheCalls == 2
\* Number of changes of the input of useDebounce in one behaviour.
MaxChanges == 3
\* Number of calls of the function returned by useDebounceCallback.
MaxCbCalls == 3
\* Number of calls of the searchFunction of useOptimizedSearch.
MaxSearchCalls == 2
\* Number of changes of its query.
MaxQueryChanges == 2
\* Largest number of items given to VirtualizedList.
MaxItems == 3
\* Largest item height, in pixels.
MaxItemHeight == 3
\* Largest container height, in pixels.
MaxContainerHeight == 4
\* Number of requests the application receives in one behaviour.
MaxRequests == 2

VARIABLES
    \* ---- server: knowledge router and KnowledgeService ----
    knowledgeService,   \* "null" | "ready": the router's lazily built singleton
    embedding,          \* article index -> its embedding vector, <<>> when empty
    ks,                 \* request slot -> the position of the request it handles
    kresp,              \* request slot -> the responses sent for its request
    searchCalls,        \* number of searchArticles calls started
    askCount,           \* article index -> embedding requests sent for it
    queryAsks,          \* number of embedding requests sent for query texts
    pace,               \* "none" | "sent" | "slept": what followed the last
                        \* article-embedding request
    sleepFresh,         \* slot -> its running sleep began after the last
                        \* article-embedding request
    unspaced,           \* an article-embedding request followed another one
                        \* with no complete sleep in between
    settled,            \* a search has completed with every embedding obtained
    \* ---- server: AI router and OpenAIService ----
    openAIService,      \* "null" | "ready": the router's lazily built singleton
    ai,                 \* the position of the AI request being handled
    airesp,             \* the responses sent for it
    chatCalls,          \* chat-completion requests sent to the provider
    \* ---- client: the clock (Date.now, timers) ----
    now,
    \* ---- client: useCache and withCache ----
    options,            \* the CacheOptions in force: [ttl, storage]
    memoryCache,        \* key -> <<>> or <<item>>: the module's Map
    webStorage,         \* engine -> key -> <<>> or <<string>>: localStorage
                        \* and sessionStorage
    cachedData,         \* the hook's React state
    lastOp,             \* the hook operation called last
    getResult,          \* what the last getCache returned
    getHadEntry,        \* the storage held an item under the key when the
                        \* last getCache was called
    lastSet,            \* <<>> or <<[data, time]>>: the last setCache call
    wc,                 \* caller -> the position of its call of the wrapper
    wcCalls,            \* number of wrapper calls started
    \* ---- client: useDebounce ----
    mounted,            \* the component using the hook is mounted
    value,              \* the hook's input value
    delay,              \* the hook's input delay
    debouncedValue,     \* the hook's React state, the value it returns
    timers,             \* the pending setTimeout handlers
    valueSince,         \* the instant the input took its current value
    stint,              \* number of the current stay of the input at a value
    debouncedStint,     \* the stay that the returned value was taken from
    shortStints,        \* the stays that ended before the delay had elapsed
    \* ---- client: useDebounceCallback ----
    cbMounted,          \* the component using the hook is mounted
    cbDelay,            \* the hook's input delay
    debounceTimer,      \* the hook's React state at the last render: 0 for
                        \* null, else the id of a timer
    cbQueued,           \* <<>> or the value given last to setDebounceTimer
                        \* since the last render
    cbTimers,           \* the pending setTimeout handlers
    cbCalls,            \* the calls of the debounced function so far
    cbRuns,             \* the runs of the wrapped callback so far
    \* ---- client: useOptimizedSearch ----
    isMountedRef,       \* isMountedRef.current
    cacheResults,       \* the option cacheResults
    query,              \* React state: the query typed
    debouncedQuery,     \* the state of the hook's useDebounce
    searchTimer,        \* <<>> or the pending timer of the hook's useDebounce
    results,            \* React state
    isSearching,        \* React state
    hasSearched,        \* React state
    error,              \* React state, "null" or a message
    searchCachedData,   \* the state of the hook's useCache, "null" or data
    sessionSearch,      \* query q -> what sessionStorage holds under the key
                        \* of q, <<>> or <<string>>
    inFlight,           \* the searchFunction calls not settled yet
    searchLog,          \* the queries searchFunction was called with
    lastSearch,         \* <<>> or the query of the search started last
    pendingRender,      \* a state update awaits its render
    phase,              \* "effects" between a render and its effects
    effectDeps,         \* <<>> or the query and debounced query of the
                        \* render whose effects ran last
    queryChanges,       \* number of changes of the query by its user
    byHand,             \* refreshSearch or clearSearch was called
    anyRejected,        \* a searchFunction call rejected
    settledLate,        \* a searchFunction call settled after the unmount
    \* ---- client: useOptimizedFilter ----
    items,              \* the list given to the hook
    minSearchLength,    \* the hook's option minSearchLength
    \* ---- client: VirtualizedList ----
    listItems,          \* the component's prop items
    itemHeight,         \* its prop itemHeight
    containerHeight,    \* its prop containerHeight
    overscan,           \* its prop overscan
    scrollTop,          \* its React state scrollTop
    \* ---- server: the Express application ----
    handled             \* the requests received so far, each with the
                        \* handler that answered it

kvars == <<knowledgeService, embedding, ks, kresp, searchCalls, askCount,
           queryAsks, pace, sleepFresh, unspaced, settled>>

avars == <<openAIService, ai, airesp, chatCalls>>

tvars == <<now>>

cvars == <<options, memoryCache, webStorage, cachedData, lastOp, getResult,
           getHadEntry, lastSet, wc, wcCalls>>

dvars == <<mounted, value, delay, debouncedValue, timers, valueSince, stint,
           debouncedStint, shortStints>>

bvars == <<cbMounted, cbDelay, debounceTimer, cbQueued, cbTimers, cbCalls,
           cbRuns>>

svars == <<isMountedRef, cacheResults, query, debouncedQuery, searchTimer,
           results, isSearching, hasSearched, error, searchCachedData,
           sessionSearch, inFlight, searchLog, lastSearch, pendingRender,
           phase, effectDeps, queryChanges, byHand, anyRejected, settledLate>>

fvars == <<items, minSearchLength>>

vvars == <<listItems, itemHeight, containerHeight, overscan, scrollTop>>

pvars == <<handled>>

vars == <<kvars, avars, tvars, cvars, dvars, bvars, svars, fvars, vvars, pvars>>

\* The variables of the other components, left alone by a knowledge action.
kOthers == <<avars, tvars, cvars, dvars, bvars, svars, fvars, vvars, pvars>>
\* ... by an action of the AI router.
aOthers == <<kvars, tvars, cvars, dvars, bvars, svars, fvars, vvars, pvars>>
\* ... by the passing of time.
tOthers == <<kvars, avars, dvars, bvars, svars, fvars, vvars, pvars>>
\* ... by an action of the cache.
cOthers == <<kvars, avars, tvars, dvars, bvars, svars, fvars, vvars, pvars>>
\* ... by an action of the debounce hook.
dOthers == <<kvars, avars, tvars, cvars, bvars, svars, fvars, vvars, pvars>>
\* ... by an action of the debounced callback.
bOthers == <<kvars, avars, tvars, cvars, dvars, svars, fvars, vvars, pvars>>
\* ... by an action of the search hook.
sOthers == <<kvars, avars, tvars, cvars, dvars, bvars, fvars, vvars, pvars>>
\* everything but the inputs of useOptimizedFilter
fOthers == <<kvars, avars, tvars, cvars, dvars, bvars, svars, vvars, pvars>>
\* everything but VirtualizedList
vOthers == <<kvars, avars, tvars, cvars, dvars, bvars, svars, fvars, pvars>>
\* everything but the application's requests
pOthers == <<kvars, avars, tvars, cvars, dvars, bvars, svars, fvars, vvars>>

-----------------------------------------------------------------------------
(***************************************************************************)
(* KnowledgeService: articles, embeddings, cosine similarity.              *)
(***************************************************************************)
Articles == 1..NumArticles

\* category of the built-in articles, in the order of initializeSampleData
ArticleCategory(a) ==
    CASE a = 1 -> "Returns & Refunds"
      [] a = 2 -> "Shipping"
      [] a = 3 -> "Account Support"
      [] a = 4 -> "Technical Support"
      [] OTHER -> "Billing"

\* The provider's embedding of an article's text (title and content): the
\* embedding model is a function of the text.  Two components stand for the
\* model's dimensions.
ArticleVector(a) ==
    CASE a = 1 -> <<1, 0>>
      [] a = 2 -> <<1, 1>>
      [] a = 3 -> <<0, 1>>
      [] a = 4 -> <<-1, 0>>
      [] OTHER -> <<1, 1>>

\* Embeddings the provider may return for a query text.
QueryVectors == {<<1, 0>>, <<1, 1>>, <<-1, 1>>}

RECURSIVE Dot(_, _)
Dot(va, vb) ==
    IF Len(va) = 0 THEN 0
    ELSE Head(va) * Head(vb) + Dot(Tail(va), Tail(vb))

Sgn(x) == IF x > 0 THEN 1 ELSE IF x < 0 THEN -1 ELSE 0

\* calculateCosineSimilarity.  The score dot / (sqrt(normA) * sqrt(normB)) is
\* kept exactly as the pair <<n, d>> with n / d = sign(dot) * dot^2 /
\* (normA * normB), d > 0: the signed square of the score, which orders scores
\* as the scores themselves are ordered.
ZeroScore == <<0, 1>>
calculateCosineSimilarity(vectorA, vectorB) ==
    IF Len(vectorA) # Len(vectorB) THEN ZeroScore
    ELSE LET dotProduct == Dot(vectorA, vectorB)
             normA == Dot(vectorA, vectorA)
             normB == Dot(vectorB, vectorB)
         IN  IF normA = 0 \/ normB = 0 THEN ZeroScore
             ELSE <<Sgn(dotProduct) * dotProduct * dotProduct, normA * normB>>

\* score s1 < score s2
ScoreLess(s1, s2) == s1[1] * s2[2] < s2[1] * s1[2]
\* score s < the rational r = <<p, q>>, r >= 0
ScoreBelow(s, r) == s[1] * r[2] * r[2] < r[1] * r[1] * s[2]


\* generateEmbedding: the provider's vector, or [] when the call throws.
generateEmbedding(vector, callOk) == IF callOk THEN vector ELSE <<>>

-----------------------------------------------------------------------------
(***************************************************************************)
(* The search request: body, schema, defaults.                             *)
(***************************************************************************)
\* Rationals <<p, q>> stand for minRelevance.
DefaultLimit == 5
DefaultMinRelevance == <<7, 10>>

\* searchRequestSchema.parse succeeds: query a non-empty string, limit any
\* number, minRelevance within [0, 1] when present.
searchRequestSchemaAccepts(body) ==
    /\ "query" \in DOMAIN body
    /\ body.query # ""
    /\ "minRelevance" \in DOMAIN body =>
           /\ body.minRelevance[1] >= 0
           /\ body.minRelevance[1] <= body.minRelevance[2]

\* The parsed request, the schema's defaults filled in.
searchRequestSchemaParse(body) ==
    [query |-> body.query,
     limit |-> IF "limit" \in DOMAIN body THEN body.limit ELSE DefaultLimit,
     categories |-> IF "categories" \in DOMAIN body THEN body.categories ELSE <<>>,
     minRelevance |-> IF "minRelevance" \in DOMAIN body THEN body.minRelevance
                      ELSE DefaultMinRelevance]

Range(s) == {s[i] : i \in DOMAIN s}

\* The request bodies of the search specification: every combination of the
\* optional fields, and bodies the schema rejects.
OptLimit == {<<>>} \cup {<<l>> : l \in {-1, 1, 2}}
OptCategories == {<<>>, << <<"Shipping", "Returns & Refunds">> >>}
OptMinRelevance == {<<>>} \cup {<<r>> : r \in {<<0, 1>>, <<1, 1>>}}
MakeBody(q, l, c, r) ==
    LET b0 == [query |-> q]
        b1 == IF l = <<>> THEN b0 ELSE [query |-> q, limit |-> l[1]]
        b2 == IF c = <<>> THEN b1
              ELSE [f \in DOMAIN b1 \cup {"categories"} |->
                       IF f = "categories" THEN c[1] ELSE b1[f]]
    IN  IF r = <<>> THEN b2
        ELSE [f \in DOMAIN b2 \cup {"minRelevance"} |->
                 IF f = "minRelevance" THEN r[1] ELSE b2[f]]
ValidSearchBodies ==
    {MakeBody("refund", l, c, r) :
        l \in OptLimit, c \in OptCategories, r \in OptMinRelevance}
InvalidSearchBodies ==
    {[query |-> ""], [limit |-> 2], [query |-> "refund", minRelevance |-> <<2, 1>>]}
SearchBodies == ValidSearchBodies \cup InvalidSearchBodies
\* The bodies of the specifications that study interleavings of searches.
PlainSearchBodies == {[query |-> "refund"]}

-----------------------------------------------------------------------------
(***************************************************************************)
(* searchArticles: score, filter, sort, slice.                             *)
(***************************************************************************)
\* A stored article as the service holds it.
StoredArticle(a, emb) ==
    [id |-> a, category |-> ArticleCategory(a), embedding |-> emb[a]]

\* { ...article, relevanceScore }: the spread keeps every field of the article.
WithScore(article, queryEmbedding) ==
    [id |-> article.id, category |-> article.category,
     embedding |-> article.embedding,
     relevanceScore |-> calculateCosineSimilarity(queryEmbedding, article.embedding)]

\* { ...article, embedding: undefined }, as it is serialized: no embedding.
WithoutEmbedding(article) ==
    [f \in DOMAIN article \ {"embedding"} |-> article[f]]

\* the filter callback of searchArticles
PassesFilter(article, request) ==
    IF ScoreBelow(article.relevanceScore, request.minRelevance) THEN FALSE
    ELSE IF Len(request.categories) > 0
         THEN article.category \in Range(request.categories)
         ELSE TRUE

RECURSIVE FilterSeq(_, _)
FilterSeq(s, request) ==
    IF s = <<>> THEN <<>>
    ELSE IF PassesFilter(Head(s), request)
         THEN <<Head(s)>> \o FilterSeq(Tail(s), request)
         ELSE FilterSeq(Tail(s), request)

\* Array.prototype.sort with (a, b) => b.relevanceScore - a.relevanceScore: a
\* stable sort, highest score first.
RECURSIVE InsertByScore(_, _)
InsertByScore(x, sorted) ==
    IF sorted = <<>> THEN <<x>>
    ELSE IF ScoreLess(Head(sorted).relevanceScore, x.relevanceScore)
         THEN <<x>> \o sorted
         ELSE <<Head(sorted)>> \o InsertByScore(x, Tail(sorted))
RECURSIVE SortByScore(_)
SortByScore(s) ==
    IF s = <<>> THEN <<>>
    ELSE InsertByScore(s[Len(s)], SortByScore(SubSeq(s, 1, Len(s) - 1)))

\* Array.prototype.slice(0, end) for an integer end: a negative end counts
\* from the end of the array.
SliceFromStart(s, end) ==
    LET final == IF end < 0 THEN (IF Len(s) + end > 0 THEN Len(s) + end ELSE 0)
                 ELSE (IF end < Len(s) THEN end ELSE Len(s))
    IN  SubSeq(s, 1, final)

\* lines 295-314 of searchArticles
RankArticles(emb, queryEmbedding, request) ==
    LET scored == [a \in Articles |-> WithScore(StoredArticle(a, emb), queryEmbedding)]
    IN  SliceFromStart(SortByScore(FilterSeq(scored, request)), request.limit)

-----------------------------------------------------------------------------
(***************************************************************************)
(* The knowledge router: request slots and responses.                      *)
(***************************************************************************)
KSlots == {"s1", "s2"}
Searching == {"awaitQuery", "awaitEmbed", "sleep", "rank"}

IdleSlot ==
    [pc |-> "idle", route |-> "none",
     rejected |-> FALSE,     \* the body failed the schema
     request |-> searchRequestSchemaParse([query |-> ""]),
     queryEmbedding |-> <<>>, idx |-> 0,
     ok |-> TRUE,            \* every embedding call of this search succeeded
     articleAsks |-> 0,      \* article-embedding requests this search sent
     alone |-> TRUE,         \* no other search ran while this one did
     afterSettled |-> FALSE] \* it began after a search had obtained everything

\* The catch block of a POST handler on a ZodError: one 400 response, and the
\* return that keeps the 500 response below it from being sent.
ValidationFailureNoReturn(failMessage) ==
    <<[status |-> 400, success |-> FALSE, error |-> "Invalid request data"],
      [status |-> 500, success |-> FALSE, error |-> failMessage]>>
ValidationFailure(failMessage) ==
    <<[status |-> 400, success |-> FALSE, error |-> "Invalid request data"]>>

\* res.json({ success: true, data, ... })
Success(data) == [status |-> 200, success |-> TRUE, data |-> data]

\* The first article after index `from` whose embedding is missing or empty,
\* 0 when there is none: the test of the loop of ensureArticleEmbeddings.
NextMissing(emb, from) ==
    IF \E a \in Articles : a > from /\ emb[a] = <<>>
    THEN CHOOSE a \in Articles :
             /\ a > from /\ emb[a] = <<>>
             /\ \A b \in Articles : (b > from /\ emb[b] = <<>>) => a <= b
    ELSE 0

\* ensureArticleEmbeddings from the article after `from` up to its next await:
\* the embedding request for the next article that lacks one, or the end of
\* the loop.  paceNow is the pace as the loop resumes.
EnsureFrom(p, slot, from, paceNow) ==
    LET i == NextMissing(embedding, from)
    IN  IF i = 0
        THEN /\ ks' = [ks EXCEPT ![p] = [slot EXCEPT !.pc = "rank"]]
             /\ pace' = paceNow
             /\ sleepFresh' = [sleepFresh EXCEPT ![p] = FALSE]
             /\ UNCHANGED <<askCount, unspaced>>
        ELSE /\ ks' = [ks EXCEPT ![p] = [slot EXCEPT !.pc = "awaitEmbed",
                                                     !.idx = i,
                                                     !.articleAsks = @ + 1]]
             /\ askCount' = [askCount EXCEPT ![i] = @ + 1]
             /\ unspaced' = (unspaced \/ paceNow = "sent")
             /\ pace' = "sent"
             /\ sleepFresh' = [q \in KSlots |-> FALSE]

\* POST /search: the body fails the schema.
KSearchRejected(p, body) ==
    /\ ks[p].pc = "idle"
    /\ ~searchRequestSchemaAccepts(body)
    /\ ks' = [ks EXCEPT ![p] = [IdleSlot EXCEPT !.pc = "done", !.route = "search",
                                                 !.rejected = TRUE]]
    /\ kresp' = [kresp EXCEPT ![p] = @ \o ValidationFailure("Failed to search knowledge base")]
    /\ UNCHANGED <<knowledgeService, embedding, searchCalls, askCount, queryAsks,
                   pace, sleepFresh, unspaced, settled>>
    /\ UNCHANGED kOthers

\* POST /search: the body parses; searchArticles starts and awaits the
\* embedding of the query text.
KSearchRequest(p, body) ==
    /\ ks[p].pc = "idle"
    /\ searchRequestSchemaAccepts(body)
    /\ searchCalls < MaxSearches
    /\ knowledgeService' = "ready"
    /\ searchCalls' = searchCalls + 1
    /\ queryAsks' = queryAsks + 1
    /\ ks' = [q \in KSlots |->
                IF q = p
                THEN [IdleSlot EXCEPT !.pc = "awaitQuery", !.route = "search",
                                      !.request = searchRequestSchemaParse(body),
                                      !.alone = \A r \in KSlots \ {p} :
                                                    ks[r].pc \notin Searching,
                                      !.afterSettled = settled]
                ELSE IF ks[q].pc \in Searching
                     THEN [ks[q] EXCEPT !.alone = FALSE]
                     ELSE ks[q]]
    /\ UNCHANGED <<embedding, kresp, askCount, pace, sleepFresh, unspaced, settled>>
    /\ UNCHANGED kOthers

\* The provider answers the query-embedding request (or the call throws);
\* ensureArticleEmbeddings starts.
KQueryEmbedded(p, vector, callOk) ==
    /\ ks[p].pc = "awaitQuery"
    /\ EnsureFrom(p, [ks[p] EXCEPT !.queryEmbedding = generateEmbedding(vector, callOk),
                                   !.ok = callOk],
                  0, pace)
    /\ UNCHANGED <<knowledgeService, embedding, kresp, searchCalls, queryAsks, settled>>
    /\ UNCHANGED kOthers

\* The provider answers an article-embedding request (or the call throws): the
\* article takes the result and the 100 ms sleep begins.
KArticleEmbedded(p, callOk) ==
    /\ ks[p].pc = "awaitEmbed"
    /\ embedding' = [embedding EXCEPT
                       ![ks[p].idx] = generateEmbedding(ArticleVector(ks[p].idx), callOk)]
    /\ ks' = [ks EXCEPT ![p] = [@ EXCEPT !.pc = "sleep", !.ok = @ /\ callOk]]
    /\ sleepFresh' = [sleepFresh EXCEPT ![p] = TRUE]
    /\ UNCHANGED <<knowledgeService, kresp, searchCalls, askCount, queryAsks,
                   pace, unspaced, settled>>
    /\ UNCHANGED kOthers

\* The 100 ms timer fires; the loop goes on with the next article.
KSleepDone(p) ==
    /\ ks[p].pc = "sleep"
    /\ EnsureFrom(p, ks[p], ks[p].idx, IF sleepFresh[p] THEN "slept" ELSE pace)
    /\ UNCHANGED <<knowledgeService, embedding, kresp, searchCalls, queryAsks, settled>>
    /\ UNCHANGED kOthers

\* searchArticles scores, filters, sorts and slices, and the handler answers.
KRank(p) ==
    /\ ks[p].pc = "rank"
    /\ ks' = [ks EXCEPT ![p] = [@ EXCEPT !.pc = "done"]]
    /\ kresp' = [kresp EXCEPT ![p] =
                   Append(@, Success(RankArticles(embedding, ks[p].queryEmbedding,
                                                  ks[p].request)))]
    /\ settled' = (settled \/ \A a \in Articles : embedding[a] # <<>>)
    /\ UNCHANGED <<knowledgeService, embedding, searchCalls, askCount, queryAsks,
                   pace, sleepFresh, unspaced>>
    /\ UNCHANGED kOthers

\* getAllArticles, getArticleById, getArticlesByCategory
getAllArticles(emb) == [a \in Articles |-> WithoutEmbedding(StoredArticle(a, emb))]
getArticleById(emb, id) ==
    IF id \in Articles THEN <<WithoutEmbedding(StoredArticle(id, emb))>> ELSE <<>>
RECURSIVE InCategory(_, _)
InCategory(s, category) ==
    IF s = <<>> THEN <<>>
    ELSE IF Head(s).category = category
         THEN <<Head(s)>> \o InCategory(Tail(s), category)
         ELSE InCategory(Tail(s), category)
getArticlesByCategory(emb, category) ==
    LET stored == [a \in Articles |-> StoredArticle(a, emb)]
        kept == InCategory(stored, category)
    IN  [i \in DOMAIN kept |-> WithoutEmbedding(kept[i])]

\* A GET handler answers at once.
KAnswer(p, route, response) ==
    /\ ks[p].pc = "idle"
    /\ knowledgeService' = "ready"
    /\ ks' = [ks EXCEPT ![p] = [IdleSlot EXCEPT !.pc = "done", !.route = route]]
    /\ kresp' = [kresp EXCEPT ![p] = Append(@, response)]
    /\ UNCHANGED <<embedding, searchCalls, askCount, queryAsks, pace, sleepFresh,
                   unspaced, settled>>
    /\ UNCHANGED kOthers

\* GET /articles
KGetArticles(p) == KAnswer(p, "articles", Success(getAllArticles(embedding)))

\* GET /articles/:id
KGetArticle(p, id) ==
    KAnswer(p, "article",
            IF getArticleById(embedding, id) = <<>>
            THEN [status |-> 404, success |-> FALSE, error |-> "Article not found"]
            ELSE Success(getArticleById(embedding, id)))

\* GET /categories/:category/articles
KGetCategoryArticles(p, category) ==
    KAnswer(p, "categoryArticles", Success(getArticlesByCategory(embedding, category)))

\* The request is over; the slot takes the next one.
KRelease(p) ==
    /\ ks[p].pc = "done"
    /\ ks' = [ks EXCEPT ![p] = IdleSlot]
    /\ kresp' = [kresp EXCEPT ![p] = <<>>]
    /\ UNCHANGED <<knowledgeService, embedding, searchCalls, askCount, queryAsks,
                   pace, sleepFresh, unspaced, settled>>
    /\ UNCHANGED kOthers

KInit ==
    /\ knowledgeService = "null"
    /\ embedding = [a \in Articles |-> <<>>]
    /\ ks = [p \in KSlots |-> IdleSlot]
    /\ kresp = [p \in KSlots |-> <<>>]
    /\ searchCalls = 0
    /\ askCount = [a \in Articles |-> 0]
    /\ queryAsks = 0
    /\ pace = "none"
    /\ sleepFresh = [p \in KSlots |-> FALSE]
    /\ unspaced = FALSE
    /\ settled = FALSE

-----------------------------------------------------------------------------
(***************************************************************************)
(* The AI router: schemas, OpenAIService, handlers.                        *)
(***************************************************************************)
Senders == {"customer", "agent", "ai"}
Tiers == {"basic", "premium", "enterprise"}
Tones == {"professional", "casual", "empathetic", "technical"}

\* generateResponseSchema.parse succeeds
generateResponseSchemaAccepts(body) ==
    /\ {"conversationHistory", "customerProfile", "tone", "includeKnowledge"}
           \subseteq DOMAIN body
    /\ \A i \in DOMAIN body.conversationHistory :
           body.conversationHistory[i].sender \in Senders
    /\ body.customerProfile.tier \in Tiers
    /\ body.customerProfile.preferredTone \in Tones
    /\ body.tone \in Tones
    /\ body.includeKnowledge \in BOOLEAN

\* analyzeSentimentSchema.parse succeeds (conversationContext is optional and
\* an array of anything)
analyzeSentimentSchemaAccepts(body) ==
    {"message", "customerId"} \subseteq DOMAIN body

\* evaluateResponseSchema.parse succeeds
evaluateResponseSchemaAccepts(body) ==
    {"response", "context"} \subseteq DOMAIN body

AiRoutes == {"generate-response", "analyze-sentiment", "evaluate-response"}

SchemaAccepts(route, body) ==
    CASE route = "generate-response" -> generateResponseSchemaAccepts(body)
      [] route = "analyze-sentiment" -> analyzeSentimentSchemaAccepts(body)
      [] OTHER -> evaluateResponseSchemaAccepts(body)

\* the message of the handler's 500 response
FailMessage(route) ==
    CASE route = "generate-response" -> "Failed to generate response"
      [] route = "analyze-sentiment" -> "Failed to analyze sentiment"
      [] OTHER -> "Failed to evaluate response quality"

Failure(route) == [status |-> 500, success |-> FALSE, error |-> FailMessage(route)]

\* Request bodies of the three POST endpoints.
GoodProfile == [tier |-> "premium", preferredTone |-> "casual"]
AiBodies(route) ==
    CASE route = "generate-response" ->
             {[conversationHistory |-> <<[sender |-> "customer"]>>,
               customerProfile |-> GoodProfile, tone |-> "empathetic",
               includeKnowledge |-> TRUE],
              [conversationHistory |-> <<[sender |-> "customer"]>>,
               customerProfile |-> GoodProfile, tone |-> "angry",
               includeKnowledge |-> TRUE],
              [conversationHistory |-> <<[sender |-> "bot"]>>,
               customerProfile |-> GoodProfile, tone |-> "casual",
               includeKnowledge |-> FALSE],
              [conversationHistory |-> <<>>, tone |-> "casual",
               includeKnowledge |-> FALSE]}
      [] route = "analyze-sentiment" ->
             {[message |-> "late again", customerId |-> "c1"],
              [message |-> "late again", customerId |-> "c1",
               conversationContext |-> <<"message">>],
              [message |-> "late again", customerId |-> "c1",
               conversationContext |-> <<"message", "null">>],
              [message |-> "late again"],
              [customerId |-> "c1"]}
      [] OTHER ->
             {[response |-> "sorry", context |-> "late order"],
              [response |-> "sorry"],
              [context |-> "late order"]}

\* conversationContext?.map(msg => `${msg.sender}: ${msg.content}`) throws a
\* TypeError on an element that is null.
ContextStringThrows(route, body) ==
    /\ route = "analyze-sentiment"
    /\ "conversationContext" \in DOMAIN body
    /\ "null" \in Range(body.conversationContext)

\* The provider's reply to a chat completion: the call throws, the first
\* choice has no content, or it has a text.  A text is a sequence of tokens: a
\* code fence with or without the json tag, white space, a JSON value, or
\* anything else.
Tokens == {"fence-json", "fence", "space", "json", "other"}
RECURSIVE TextsOfLen(_)
TextsOfLen(n) ==
    IF n = 0 THEN {<<>>}
    ELSE {Append(t, k) : t \in TextsOfLen(n - 1), k \in Tokens}
Texts == UNION {TextsOfLen(n) : n \in 0..MaxTextLen}
Replies ==
    {[kind |-> "throws"], [kind |-> "noContent"]}
        \cup {[kind |-> "text", text |-> t] : t \in Texts}
FewReplies ==
    {[kind |-> "throws"], [kind |-> "text", text |-> <<"json">>],
     [kind |-> "text", text |-> <<"other">>]}

\* text.replace(fence-and-white-space, empty): every fence goes, with the white space
\* that follows it.
RECURSIVE DropSpaces(_)
DropSpaces(text) ==
    IF text # <<>> /\ Head(text) = "space" THEN DropSpaces(Tail(text)) ELSE text
RECURSIVE ReplaceFence(_, _)
ReplaceFence(text, fence) ==
    IF text = <<>> THEN <<>>
    ELSE IF Head(text) = fence THEN ReplaceFence(DropSpaces(Tail(text)), fence)
         ELSE <<Head(text)>> \o ReplaceFence(Tail(text), fence)

\* String.prototype.trim
RECURSIVE DropTrailingSpaces(_)
DropTrailingSpaces(text) ==
    IF text # <<>> /\ text[Len(text)] = "space"
    THEN DropTrailingSpaces(SubSeq(text, 1, Len(text) - 1))
    ELSE text
Trim(text) == DropTrailingSpaces(DropSpaces(text))

\* the cleaning of the reply before JSON.parse
CleanReply(text) == Trim(ReplaceFence(ReplaceFence(text, "fence-json"), "fence"))

\* JSON.parse returns (a single JSON value) rather than throws
JsonParses(text) == text = <<"json">>

\* what JSON.parse returns for the provider's JSON value
ParsedReply == [fromProvider |-> TRUE]

\* the fallback values of the two catch blocks
NeutralSentiment ==
    [score |-> 0, label |-> "neutral", confidence |-> <<1, 2>>,
     emotions |-> [anger |-> 0, joy |-> 0, fear |-> 0, sadness |-> 0, surprise |-> 0]]
DefaultQuality ==
    [overall |-> 7, clarity |-> 7, completeness |-> 7, tone |-> 7, accuracy |-> 7,
     actionability |-> 7, suggestions |-> <<"Unable to evaluate response quality">>]

\* The try block of analyzeSentiment and of evaluateResponseQuality: what it
\* returns, or "throw" when an exception leaves it.
TryParseReply(reply) ==
    IF reply.kind = "throws" THEN "throw"
    ELSE IF reply.kind = "noContent" \/ reply.text = <<>> THEN "throw"
    ELSE IF JsonParses(CleanReply(reply.text)) THEN "parsed" ELSE "throw"

\* analyzeSentiment / evaluateResponseQuality: the result, with ok = FALSE
\* when the call ends by throwing.
WithFallbackNoCatchOnParse(reply, fallback) ==
    IF TryParseReply(reply) = "parsed" THEN [ok |-> TRUE, value |-> ParsedReply]
    ELSE IF reply.kind = "text" /\ reply.text # <<>>
         THEN [ok |-> FALSE, value |-> fallback]
         ELSE [ok |-> TRUE, value |-> fallback]
WithFallback(reply, fallback) ==
    IF TryParseReply(reply) = "parsed" THEN [ok |-> TRUE, value |-> ParsedReply]
    ELSE [ok |-> TRUE, value |-> fallback]
analyzeSentiment(reply) == WithFallback(reply, NeutralSentiment)
evaluateResponseQuality(reply) == WithFallback(reply, DefaultQuality)

\* generateResponse: three options in the requested tone, or the rethrown
\* error.
generateResponse(reply, request) ==
    IF reply.kind = "throws" THEN [ok |-> FALSE, value |-> <<>>]
    ELSE [ok |-> TRUE, value |-> [i \in 1..3 |-> [tone |-> request.tone]]]

ServiceResult(route, reply, request) ==
    CASE route = "generate-response" -> generateResponse(reply, request)
      [] route = "analyze-sentiment" -> analyzeSentiment(reply)
      [] OTHER -> evaluateResponseQuality(reply)

IdleAi == [pc |-> "idle", route |-> "none", rejected |-> FALSE,
           body |-> [none |-> TRUE], reply |-> [kind |-> "none"]]

\* A POST handler whose body fails its schema.
AiRejected(route, body) ==
    /\ ai.pc = "idle"
    /\ ~SchemaAccepts(route, body)
    /\ ai' = [IdleAi EXCEPT !.pc = "done", !.route = route, !.body = body,
                             !.rejected = TRUE]
    /\ airesp' = airesp \o ValidationFailure(FailMessage(route))
    /\ UNCHANGED <<openAIService, chatCalls>>
    /\ UNCHANGED aOthers

\* A POST handler whose body parses: it calls the service, which sends the
\* chat-completion request; or it throws while building the context string.
AiRequest(route, body) ==
    /\ ai.pc = "idle"
    /\ SchemaAccepts(route, body)
    /\ chatCalls < MaxChatCalls
    /\ IF ContextStringThrows(route, body)
       THEN /\ ai' = [IdleAi EXCEPT !.pc = "done", !.route = route, !.body = body]
            /\ airesp' = Append(airesp, Failure(route))
            /\ UNCHANGED <<openAIService, chatCalls>>
       ELSE /\ ai' = [IdleAi EXCEPT !.pc = "awaitProvider", !.route = route,
                                    !.body = body]
            /\ openAIService' = "ready"
            /\ chatCalls' = chatCalls + 1
            /\ UNCHANGED airesp
    /\ UNCHANGED aOthers

\* The provider's reply arrives; the service returns or throws and the handler
\* answers.
AiProviderReplies(reply) ==
    /\ ai.pc = "awaitProvider"
    /\ LET result == ServiceResult(ai.route, reply, ai.body)
       IN  airesp' = Append(airesp, IF result.ok THEN Success(result.value)
                                    ELSE Failure(ai.route))
    /\ ai' = [ai EXCEPT !.pc = "done", !.reply = reply]
    /\ UNCHANGED <<openAIService, chatCalls>>
    /\ UNCHANGED aOthers

\* The request is over.
AiRelease ==
    /\ ai.pc = "done"
    /\ ai' = IdleAi
    /\ airesp' = <<>>
    /\ UNCHANGED <<openAIService, chatCalls>>
    /\ UNCHANGED aOthers

AInit ==
    /\ openAIService = "null"
    /\ ai = IdleAi
    /\ airesp = <<>>
    /\ chatCalls = 0

-----------------------------------------------------------------------------
(***************************************************************************)
(* Client: the clock.                                                      *)
(***************************************************************************)
Times == 0..MaxTime

\* Time passes by one unit (between two operations of the client).
Tick ==
    /\ now < MaxTime
    /\ now' = now + 1
    /\ lastOp' = "tick"
    /\ UNCHANGED <<options, memoryCache, webStorage, cachedData, getResult,
                   getHadEntry, lastSet, wc, wcCalls>>
    /\ UNCHANGED tOthers

-----------------------------------------------------------------------------
(***************************************************************************)
(* Client: useCache and withCache (hooks/useCache.ts).                     *)
(*                                                                         *)
(* An item is [data, timestamp, ttl].  The memory map holds items; the web *)
(* storages hold strings, written by JSON.stringify and read back by       *)
(* JSON.parse.  The cached data are JSON values (what an API call yields), *)
(* with "null" for null.  A slot of a storage is <<>> when nothing is      *)
(* stored under the key, else a one-element sequence.                      *)
(***************************************************************************)
Keys == {0, 1}
Data == {"A", "B"}
Storages == {"memory", "localStorage", "sessionStorage"}
Engines == {"localStorage", "sessionStorage"}

\* ttl option left out: five minutes, which is two units of the clock
DefaultTtl == 2
DefaultOptions == [ttl |-> DefaultTtl, storage |-> "memory"]

\* JSON.stringify of an item: the text of its three members, in order
JSONstringify(item) == <<"data", item.data, "timestamp", item.timestamp, "ttl", item.ttl>>
\* JSON.parse of such a text
JSONparse(text) == [data |-> text[2], timestamp |-> text[4], ttl |-> text[6]]

CacheItem(data, ttl) == [data |-> data, timestamp |-> now, ttl |-> ttl]

\* ---- useCache: one hook instance, on the key UseCacheKey ----
UseCacheKey == 0

getCachedItem ==
    IF options.storage = "memory"
    THEN memoryCache[UseCacheKey]
    ELSE IF webStorage[options.storage][UseCacheKey] = <<>>
         THEN <<>>
         ELSE <<JSONparse(webStorage[options.storage][UseCacheKey][1])>>

isExpired(item) ==
    IF item.ttl = 0 THEN FALSE ELSE now - item.timestamp > item.ttl

\* removeCacheItem: the storages after it
Removed(store) == [store EXCEPT ![UseCacheKey] = <<>>]
removeCacheItem ==
    /\ IF options.storage = "memory"
       THEN memoryCache' = Removed(memoryCache) /\ UNCHANGED webStorage
       ELSE /\ webStorage' = [webStorage EXCEPT ![options.storage] = Removed(@)]
            /\ UNCHANGED memoryCache
    /\ cachedData' = "null"

\* setCache(data).  writeOk: the storage accepts the write; setItem of a web
\* storage throws when the quota is exceeded or the storage is disabled, and
\* the hook catches that and logs it.
setCache(data, writeOk) ==
    /\ IF options.storage = "memory"
       THEN /\ memoryCache' = [memoryCache EXCEPT
                                  ![UseCacheKey] = <<CacheItem(data, options.ttl)>>]
            /\ cachedData' = data
            /\ UNCHANGED webStorage
       ELSE IF writeOk
            THEN /\ webStorage' = [webStorage EXCEPT ![options.storage][UseCacheKey] =
                                      <<JSONstringify(CacheItem(data, options.ttl))>>]
                 /\ cachedData' = data
                 /\ UNCHANGED memoryCache
            ELSE UNCHANGED <<memoryCache, webStorage, cachedData>>
    /\ lastOp' = "set"
    /\ lastSet' = <<[data |-> data, time |-> now]>>
    /\ UNCHANGED <<options, getResult, getHadEntry, wc, wcCalls>>
    /\ UNCHANGED cOthers

\* What getCache returns for an item it found.
Returned(item) == IF isExpired(item) THEN "null" ELSE item.data

getCache ==
    /\ lastOp' = "get"
    /\ getHadEntry' = (getCachedItem # <<>>)
    /\ IF getCachedItem = <<>>
       THEN /\ getResult' = "null"
            /\ UNCHANGED <<memoryCache, webStorage, cachedData>>
       ELSE /\ getResult' = Returned(getCachedItem[1])
            /\ IF isExpired(getCachedItem[1])
               THEN removeCacheItem
               ELSE UNCHANGED <<memoryCache, webStorage, cachedData>>
    /\ UNCHANGED <<options, lastSet, wc, wcCalls>>
    /\ UNCHANGED cOthers

clearCache ==
    /\ removeCacheItem
    /\ lastOp' = "clear"
    /\ UNCHANGED <<options, getResult, getHadEntry, lastSet, wc, wcCalls>>
    /\ UNCHANGED cOthers

\* ---- withCache: a wrapped function and two overlapping callers ----
Callers == {"w1", "w2"}
Args == {1, 2, 3}
\* the getCacheKey given to withCache: two of the arguments share a key
getCacheKey(arg) == arg % 2

\* the lookup at the start of a call
CacheLookup(cacheKey) ==
    IF options.storage = "memory"
    THEN memoryCache[cacheKey]
    ELSE IF webStorage[options.storage][cacheKey] = <<>>
         THEN <<>>
         ELSE <<JSONparse(webStorage[options.storage][cacheKey][1])>>

\* the test that lets a call answer from the cache
IsFreshNoTtlCheck(cache) == cache # <<>>
IsFresh(cache) ==
    /\ cache # <<>>
    /\ (cache[1].ttl = 0 \/ now - cache[1].timestamp < cache[1].ttl)

Resolved(data) == [kind |-> "resolved", data |-> data]
Rejected == [kind |-> "rejected"]

\* the catch block: the item read at the start of the call, else the error
OnRejectedAlwaysThrows(cache) == Rejected
OnRejected(cache) == IF cache # <<>> THEN Resolved(cache[1].data) ELSE Rejected

IdleCall == [pc |-> "idle", arg |-> 0, cache |-> <<>>, invoked |-> 0,
             fn |-> [kind |-> "none"], outcome |-> [kind |-> "none"]]

WcUnchanged == UNCHANGED <<options, cachedData, lastOp, getResult, getHadEntry, lastSet>>

\* A caller calls the wrapper: it answers from the cache, or invokes fn and
\* waits for it.
WcCall(w, arg) ==
    /\ wc[w].pc = "idle"
    /\ wcCalls < MaxCacheCalls
    /\ wcCalls' = wcCalls + 1
    /\ LET cache == CacheLookup(getCacheKey(arg))
       IN  IF IsFresh(cache)
           THEN wc' = [wc EXCEPT ![w] = [IdleCall EXCEPT !.pc = "done", !.arg = arg,
                                             !.cache = cache,
                                             !.outcome = Resolved(cache[1].data)]]
           ELSE wc' = [wc EXCEPT ![w] = [IdleCall EXCEPT !.pc = "fetching", !.arg = arg,
                                             !.cache = cache, !.invoked = 1]]
    /\ UNCHANGED <<memoryCache, webStorage>>
    /\ WcUnchanged
    /\ UNCHANGED cOthers

\* fn resolves with result; the item is stored.  writeOk: the web storage
\* accepts the write; when setItem throws, the item goes to the memory map.
WcResolved(w, result, writeOk) ==
    /\ wc[w].pc = "fetching"
    /\ LET cacheKey == getCacheKey(wc[w].arg)
           cacheItem == CacheItem(result, options.ttl)
       IN  IF options.storage = "memory" \/ ~writeOk
           THEN /\ memoryCache' = [memoryCache EXCEPT ![cacheKey] = <<cacheItem>>]
                /\ UNCHANGED webStorage
           ELSE /\ webStorage' = [webStorage EXCEPT ![options.storage][cacheKey] =
                                     <<JSONstringify(cacheItem)>>]
                /\ UNCHANGED memoryCache
    /\ wc' = [wc EXCEPT ![w].pc = "done", ![w].fn = Resolved(result),
                        ![w].outcome = Resolved(result)]
    /\ UNCHANGED wcCalls
    /\ WcUnchanged
    /\ UNCHANGED cOthers

\* fn rejects.
WcRejected(w) ==
    /\ wc[w].pc = "fetching"
    /\ wc' = [wc EXCEPT ![w].pc = "done", ![w].fn = Rejected,
                        ![w].outcome = OnRejected(wc[w].cache)]
    /\ UNCHANGED <<memoryCache, webStorage, wcCalls>>
    /\ WcUnchanged
    /\ UNCHANGED cOthers

\* The caller has its answer and may call again.
WcRelease(w) ==
    /\ wc[w].pc = "done"
    /\ wc' = [wc EXCEPT ![w] = IdleCall]
    /\ UNCHANGED <<memoryCache, webStorage, wcCalls>>
    /\ WcUnchanged
    /\ UNCHANGED cOthers

\* The caches as the page loads: nothing stored, no call made.
CacheStart ==
    /\ now = 0
    /\ memoryCache = [k \in Keys |-> <<>>]
    /\ webStorage = [e \in Engines |-> [k \in Keys |-> <<>>]]
    /\ cachedData = "null"
    /\ lastOp = "none"
    /\ getResult = "null"
    /\ getHadEntry = FALSE
    /\ lastSet = <<>>
    /\ wc = [w \in Callers |-> IdleCall]
    /\ wcCalls = 0

-----------------------------------------------------------------------------
(***************************************************************************)
(* Client: useDebounce (hooks/useResponseQuality.ts).                      *)
(*                                                                         *)
(* The hook keeps the returned value in React state, initialised with the  *)
(* input value.  Its effect, run on mount and whenever the input value     *)
(* changes, sets a timer that copies the value into the state after delay; *)
(* the effect's cleanup, run before the next effect and on unmount, clears *)
(* the timer.  A render and the effects it causes are one step.  The delay *)
(* is the same all through a behaviour.  A timer fires at its due time or  *)
(* later.  A stay is the time the input keeps one value; stays are         *)
(* numbered from 1, the stay of the value the hook is mounted with.        *)
(***************************************************************************)
Inputs == {"x", "y"}
Delays == {1, 2}

\* the handler set by setTimeout(() => setDebouncedValue(value), delay)
Handler(v, st) == [value |-> v, due |-> now + delay, stay |-> st]

\* the effect's cleanup, clearTimeout(handler): the timers left pending
CleanupKeepsTimer(pending) == pending
Cleanup(pending) == {}

\* The component renders with another input value: the cleanup of the
\* previous effect, then the effect.
SetValue(v) ==
    /\ mounted
    /\ v # value
    /\ stint <= MaxChanges
    /\ value' = v
    /\ valueSince' = now
    /\ stint' = stint + 1
    /\ shortStints' = IF now - valueSince < delay
                      THEN shortStints \cup {stint}
                      ELSE shortStints
    /\ timers' = Cleanup(timers) \cup {Handler(v, stint + 1)}
    /\ UNCHANGED <<mounted, delay, debouncedValue, debouncedStint>>
    /\ UNCHANGED dOthers

\* A pending timer fires: setDebouncedValue(value), with the value of the
\* render that set the timer.
TimerFires(t) ==
    /\ mounted
    /\ t \in timers
    /\ now >= t.due
    /\ timers' = timers \ {t}
    /\ debouncedValue' = t.value
    /\ debouncedStint' = t.stay
    /\ UNCHANGED <<mounted, value, delay, valueSince, stint, shortStints>>
    /\ UNCHANGED dOthers

\* The component unmounts: the cleanup of the last effect.
Unmount ==
    /\ mounted
    /\ mounted' = FALSE
    /\ timers' = Cleanup(timers)
    /\ UNCHANGED <<value, delay, debouncedValue, valueSince, stint,
                   debouncedStint, shortStints>>
    /\ UNCHANGED dOthers

\* The hook right after the component mounted with value v and delay d at
\* instant 0: useState(value), and the first effect has set its timer.
DebounceStart(v, d) ==
    /\ mounted = TRUE
    /\ value = v
    /\ delay = d
    /\ debouncedValue = v
    /\ timers = {[value |-> v, due |-> d, stay |-> 1]}
    /\ valueSince = 0
    /\ stint = 1
    /\ debouncedStint = 1
    /\ shortStints = {}

-----------------------------------------------------------------------------
(***************************************************************************)
(* Client: useDebounceCallback (hooks/useResponseQuality.ts).              *)
(*                                                                         *)
(* The hook keeps the timer of the last call in React state.  The function *)
(* it returns is made anew by every render and reads the state of that     *)
(* render; setDebounceTimer takes effect at the next render.  The          *)
(* component renders again before time passes; a timer fires at its due    *)
(* time, before any call made at that instant.  Timers are numbered by the *)
(* call that set them.                                                     *)
(***************************************************************************)
CbArgs == {"a", "b"}

\* clearTimeout(id)
ClearTimeout(pending, id) == {t \in pending : t.id # id}

\* A call of the function returned by the last render.
CbCall(args) ==
    /\ cbMounted
    /\ Len(cbCalls) < MaxCbCalls
    /\ \A t \in cbTimers : t.due > now      \* the timers now due have fired
    /\ LET newTimer == Len(cbCalls) + 1
       IN  /\ cbTimers' = ClearTimeout(cbTimers, debounceTimer)
                            \cup {[id |-> newTimer, due |-> now + cbDelay,
                                   args |-> args]}
           /\ cbQueued' = <<newTimer>>
    /\ cbCalls' = Append(cbCalls, [args |-> args, time |-> now])
    /\ UNCHANGED <<cbMounted, cbDelay, debounceTimer, cbRuns>>
    /\ UNCHANGED bOthers

\* The component renders with the new state; the state has changed, so the
\* cleanup of the previous render's effect runs.
CbRender ==
    /\ cbMounted
    /\ cbQueued # <<>>
    /\ debounceTimer' = cbQueued[1]
    /\ cbQueued' = <<>>
    /\ cbTimers' = ClearTimeout(cbTimers, debounceTimer)
    /\ UNCHANGED <<cbMounted, cbDelay, cbCalls, cbRuns>>
    /\ UNCHANGED bOthers

\* A pending timer fires: callback(...args).
CbTimerFires(t) ==
    /\ t \in cbTimers
    /\ now >= t.due
    /\ cbTimers' = cbTimers \ {t}
    /\ cbRuns' = Append(cbRuns, [args |-> t.args, time |-> now, call |-> t.id])
    /\ UNCHANGED <<cbMounted, cbDelay, debounceTimer, cbQueued, cbCalls>>
    /\ UNCHANGED bOthers

\* The component unmounts: the cleanup of the last render's effect.
CbUnmount ==
    /\ cbMounted
    /\ cbMounted' = FALSE
    /\ cbTimers' = ClearTimeout(cbTimers, debounceTimer)
    /\ UNCHANGED <<cbDelay, debounceTimer, cbQueued, cbCalls, cbRuns>>
    /\ UNCHANGED bOthers

\* Time passes once the component has rendered and the due timers have fired.
CbTick ==
    /\ cbQueued = <<>> \/ ~cbMounted
    /\ \A t \in cbTimers : t.due > now
    /\ Tick

\* The hook after the first render, with delay d: useState(null).
CallbackMounted(d) ==
    /\ cbMounted = TRUE
    /\ cbDelay = d
    /\ debounceTimer = 0
    /\ cbQueued = <<>>
    /\ cbTimers = {}
    /\ cbCalls = <<>>
    /\ cbRuns = <<>>

CallbackStart == CallbackMounted(1)

-----------------------------------------------------------------------------
(***************************************************************************)
(* Client: useOptimizedSearch (hooks/useOptimizedSearch.ts).               *)
(*                                                                         *)
(* A query is a sequence of characters.  searchFunction(q) resolves with   *)
(* the list ResultOf(q) or rejects.  A state update takes effect at once   *)
(* and asks for a render when it changes the state; an array given to a    *)
(* setter is always a new one, so setResults always asks for a render.     *)
(* A render is followed by its effects, in the order of the hooks: the     *)
(* effect of useDebounce when the query changed, the effect of useCache    *)
(* when the key changed, and the search effect after every render, because *)
(* useCache returns a new object at every render and performSearch is      *)
(* made anew with it.  The functions the user calls are those of the last  *)
(* render.                                                                 *)
(***************************************************************************)
Queries == {<<>>, <<"a", "b">>, <<"c", "d">>}

\* the options given to the hook, in units of the clock
SearchOptions == [debounceMs |-> 1, minSearchLength |-> 2, cacheTTL |-> 2]

\* what searchFunction resolves with
ResultOf(q) == <<[match |-> q]>>

\* The part of the state that performSearch and the cache work on.
Hook ==
    [results |-> results, isSearching |-> isSearching, hasSearched |-> hasSearched,
     error |-> error, cachedData |-> searchCachedData, store |-> sessionSearch,
     inFlight |-> inFlight, log |-> searchLog, last |-> lastSearch,
     dirty |-> pendingRender]

\* the state after the step is the record h
HookBecomes(h) ==
    /\ results' = h.results
    /\ isSearching' = h.isSearching
    /\ hasSearched' = h.hasSearched
    /\ error' = h.error
    /\ searchCachedData' = h.cachedData
    /\ sessionSearch' = h.store
    /\ inFlight' = h.inFlight
    /\ searchLog' = h.log
    /\ lastSearch' = h.last
    /\ pendingRender' = h.dirty

\* cache.getCache() of the useCache on the key of q: the state after it and
\* the value, <<>> for null
GetCacheIn(h, q) ==
    IF ~cacheResults \/ h.store[q] = <<>>
    THEN [h |-> h, value |-> <<>>]
    ELSE IF isExpired(JSONparse(h.store[q][1]))
         THEN [h |-> [h EXCEPT !.store[q] = <<>>, !.cachedData = <<>>,
                               !.dirty = @ \/ h.cachedData # <<>>],
               value |-> <<>>]
         ELSE [h |-> h, value |-> <<JSONparse(h.store[q][1]).data>>]

\* cache.clearCache()
ClearCacheIn(h, q) ==
    IF cacheResults
    THEN [h EXCEPT !.store[q] = <<>>, !.cachedData = <<>>,
                   !.dirty = @ \/ h.cachedData # <<>>]
    ELSE h

\* the test at the head of performSearch
TooShortNever(searchQuery) == FALSE
TooShort(searchQuery) == Len(searchQuery) < SearchOptions.minSearchLength

\* performSearch(searchQuery) up to its await, the component being mounted
PerformSearch(h, searchQuery) ==
    IF TooShort(searchQuery)
    THEN [h EXCEPT !.results = <<>>, !.hasSearched = FALSE, !.error = "null",
                   !.dirty = TRUE]
    ELSE LET h1 == [h EXCEPT !.isSearching = TRUE, !.error = "null",
                             !.dirty = @ \/ ~h.isSearching \/ h.error # "null",
                             !.last = <<searchQuery>>]
             got == GetCacheIn(h1, searchQuery)
         IN  IF got.value # <<>>
             THEN [got.h EXCEPT !.results = got.value[1], !.isSearching = FALSE,
                                !.hasSearched = TRUE, !.dirty = TRUE]
             ELSE [got.h EXCEPT
                      !.inFlight = @ \cup {[id |-> Len(h.log) + 1,
                                            query |-> searchQuery]},
                      !.log = Append(@, searchQuery)]

\* the test of isMountedRef.current after the await
StillMountedNotTested(ref) == TRUE
StillMounted(ref) == ref

\* The user types: setQuery(q).
SetQuery(q) ==
    /\ isMountedRef /\ phase = "idle"
    /\ q # query
    /\ queryChanges < MaxQueryChanges
    /\ query' = q
    /\ queryChanges' = queryChanges + 1
    /\ pendingRender' = TRUE
    /\ UNCHANGED <<isMountedRef, cacheResults, debouncedQuery, searchTimer, results,
                   isSearching, hasSearched, error, searchCachedData, sessionSearch,
                   inFlight, searchLog, lastSearch, phase, effectDeps, byHand, anyRejected, settledLate>>
    /\ UNCHANGED sOthers

\* The timer of the hook's useDebounce fires: setDebouncedValue(value).
SearchTimerFires ==
    /\ isMountedRef /\ phase = "idle"
    /\ searchTimer # <<>>
    /\ now >= searchTimer[1].due
    /\ debouncedQuery' = searchTimer[1].value
    /\ pendingRender' = (pendingRender \/ searchTimer[1].value # debouncedQuery)
    /\ searchTimer' = <<>>
    /\ UNCHANGED <<isMountedRef, cacheResults, query, results, isSearching,
                   hasSearched, error, searchCachedData, sessionSearch, inFlight,
                   searchLog, lastSearch, phase, effectDeps, queryChanges,
                   byHand, anyRejected, settledLate>>
    /\ UNCHANGED sOthers

\* The component renders with the updated state.
SearchRender ==
    /\ isMountedRef /\ phase = "idle"
    /\ pendingRender
    /\ pendingRender' = FALSE
    /\ phase' = "effects"
    /\ UNCHANGED <<isMountedRef, cacheResults, query, debouncedQuery, searchTimer,
                   results, isSearching, hasSearched, error, searchCachedData,
                   sessionSearch, inFlight, searchLog, lastSearch, effectDeps,
                   queryChanges, byHand, anyRejected, settledLate>>
    /\ UNCHANGED sOthers

\* The effects of the last render.
SearchEffects ==
    /\ phase = "effects"
    /\ LET queryChanged == effectDeps = <<>> \/ effectDeps[1].query # query
           keyChanged == effectDeps = <<>> \/ effectDeps[1].key # debouncedQuery
           got == GetCacheIn(Hook, debouncedQuery)
           \* useCache: load cached data on mount and when getCache changes
           h1 == IF ~keyChanged THEN Hook
                 ELSE IF got.value = <<>> THEN got.h
                 ELSE [got.h EXCEPT !.cachedData = got.value, !.dirty = TRUE]
           \* the search effect
           h2 == IF debouncedQuery # query THEN h1
                 ELSE PerformSearch(h1, debouncedQuery)
       IN  /\ Len(h2.log) <= MaxSearchCalls
           /\ HookBecomes(h2)
           /\ searchTimer' = IF queryChanged
                             THEN <<[value |-> query,
                                     due |-> now + SearchOptions.debounceMs]>>
                             ELSE searchTimer
    /\ effectDeps' = <<[query |-> query, key |-> debouncedQuery]>>
    /\ phase' = "idle"
    /\ UNCHANGED <<isMountedRef, cacheResults, query, debouncedQuery, queryChanges, byHand, anyRejected, settledLate>>
    /\ UNCHANGED sOthers

\* A searchFunction call resolves.  writeOk: sessionStorage accepts the write
\* of cache.setCache.
SearchResolved(c, writeOk) ==
    /\ c \in inFlight
    /\ inFlight' = inFlight \ {c}
    /\ IF ~StillMounted(isMountedRef)
       THEN UNCHANGED <<results, isSearching, hasSearched, error, searchCachedData,
                        sessionSearch, pendingRender>>
       ELSE /\ IF cacheResults /\ writeOk
               THEN /\ sessionSearch' = [sessionSearch EXCEPT ![c.query] =
                                            <<JSONstringify(CacheItem(ResultOf(c.query),
                                                            SearchOptions.cacheTTL))>>]
                    /\ searchCachedData' = <<ResultOf(c.query)>>
               ELSE UNCHANGED <<sessionSearch, searchCachedData>>
            /\ results' = ResultOf(c.query)
            /\ hasSearched' = TRUE
            /\ isSearching' = FALSE
            /\ pendingRender' = TRUE
            /\ UNCHANGED error
    /\ settledLate' = (settledLate \/ ~isMountedRef)
    /\ UNCHANGED <<isMountedRef, cacheResults, query, debouncedQuery, searchTimer,
                   searchLog, lastSearch, phase, effectDeps, queryChanges,
                   byHand, anyRejected>>
    /\ UNCHANGED sOthers

\* A searchFunction call rejects.
SearchRejected(c) ==
    /\ c \in inFlight
    /\ inFlight' = inFlight \ {c}
    /\ IF ~StillMounted(isMountedRef)
       THEN UNCHANGED <<results, isSearching, error, pendingRender>>
       ELSE /\ error' = "Search failed"
            /\ results' = <<>>
            /\ isSearching' = FALSE
            /\ pendingRender' = TRUE
    /\ anyRejected' = TRUE
    /\ settledLate' = (settledLate \/ ~isMountedRef)
    /\ UNCHANGED <<isMountedRef, cacheResults, query, debouncedQuery, searchTimer,
                   hasSearched, searchCachedData, sessionSearch, searchLog, lastSearch,
                   phase, effectDeps, queryChanges, byHand>>
    /\ UNCHANGED sOthers

\* the query and the debounced query of the last render, which the functions
\* returned by that render work with
Rendered == effectDeps[1]

\* refreshSearch()
RefreshSearch ==
    /\ isMountedRef /\ phase = "idle"
    /\ ~byHand
    /\ LET h == PerformSearch(ClearCacheIn(Hook, Rendered.key), Rendered.key)
       IN  /\ Len(h.log) <= MaxSearchCalls
           /\ HookBecomes(h)
    /\ byHand' = TRUE
    /\ UNCHANGED <<isMountedRef, cacheResults, query, debouncedQuery, searchTimer,
                   phase, effectDeps, queryChanges, anyRejected, settledLate>>
    /\ UNCHANGED sOthers

\* clearSearch()
ClearSearch ==
    /\ isMountedRef /\ phase = "idle"
    /\ ~byHand
    /\ query' = <<>>
    /\ HookBecomes([ClearCacheIn(Hook, Rendered.key) EXCEPT
                       !.results = <<>>, !.hasSearched = FALSE, !.error = "null",
                       !.dirty = TRUE])
    /\ byHand' = TRUE
    /\ UNCHANGED <<isMountedRef, cacheResults, debouncedQuery, searchTimer, phase,
                   effectDeps, queryChanges, anyRejected, settledLate>>
    /\ UNCHANGED sOthers

\* The component unmounts: isMountedRef.current = false, and the cleanup of
\* the effect of useDebounce.
SearchUnmount ==
    /\ isMountedRef /\ phase = "idle"
    /\ isMountedRef' = FALSE
    /\ searchTimer' = <<>>
    /\ UNCHANGED <<cacheResults, query, debouncedQuery, results, isSearching,
                   hasSearched, error, searchCachedData, sessionSearch, inFlight,
                   searchLog, lastSearch, pendingRender, phase, effectDeps, queryChanges, byHand, anyRejected, settledLate>>
    /\ UNCHANGED sOthers

\* The hook right after the first render, its effects still to run.
SearchHookMounted(caching) ==
    /\ isMountedRef = TRUE
    /\ cacheResults = caching
    /\ query = <<>>
    /\ debouncedQuery = <<>>
    /\ searchTimer = <<>>
    /\ results = <<>>
    /\ isSearching = FALSE
    /\ hasSearched = FALSE
    /\ error = "null"
    /\ searchCachedData = <<>>
    /\ sessionSearch = [q \in Queries |-> <<>>]
    /\ inFlight = {}
    /\ searchLog = <<>>
    /\ lastSearch = <<>>
    /\ pendingRender = FALSE
    /\ phase = "effects"
    /\ effectDeps = <<>>
    /\ queryChanges = 0
    /\ byHand = FALSE
    /\ anyRejected = FALSE
    /\ settledLate = FALSE

SearchHookStart == SearchHookMounted(TRUE)

-----------------------------------------------------------------------------
(***************************************************************************)
(* Client: useOptimizedFilter (hooks/useOptimizedSearch.ts), with the      *)
(* filter function that ConversationList gives it.  The query is the       *)
(* input value of useDebounce and the debounced query its returned value.  *)
(* A text is a sequence of characters.                                     *)
(***************************************************************************)

\* the queries typed
FilterQueries == {<<>>, <<"a">>, <<"b">>, <<"a", "b">>}

\* the lists given as items; an item stands for a conversation and is the
\* text that is searched
ItemLists ==
    { <<>>,
      << <<"A", "b">>, <<"b">>, <<"a", "b">> >>,
      << <<"b", "a">>, <<"a">> >> }

\* the values given for the option minSearchLength
MinLengths == {0, 1, 2}

\* String.prototype.toLowerCase
LowerCase(text) == [i \in DOMAIN text |-> IF text[i] = "A" THEN "a" ELSE text[i]]

\* String.prototype.includes
Includes(text, part) ==
    \E i \in 0..(Len(text) - Len(part)) :
        SubSeq(text, i + 1, i + Len(part)) = part

\* the filter function of ConversationList
filterFunction(item, searchQuery) ==
    LET searchLower == LowerCase(searchQuery)
    IN  Includes(LowerCase(item), searchLower)

\* the useMemo value filteredItems of the current render
filteredItemsNoLengthTest ==
    SelectSeq(items, LAMBDA item : filterFunction(item, debouncedValue))
filteredItems ==
    IF Len(debouncedValue) < minSearchLength
    THEN items
    ELSE SelectSeq(items, LAMBDA item : filterFunction(item, debouncedValue))

\* the returned isFiltering of the current render
isFiltering == debouncedValue # value

\* setQuery(q), the render it causes and the effect of useDebounce; a timer
\* is set only if it is due within the time that is modelled
FilterSetQuery(q) ==
    /\ now + delay <= MaxTime
    /\ SetValue(q)

\* The hook's inputs at the first render.
FilterMounted(l, m) ==
    /\ items = l
    /\ minSearchLength = m

FilterStart == FilterMounted(<<>>, 0)

-----------------------------------------------------------------------------
(***************************************************************************)
(* Client: VirtualizedList.  Items are numbered from 0 as in the code;     *)
(* item i is listItems[i + 1].  Lengths are whole pixels.                  *)
(***************************************************************************)

\* the props the component is given
ItemCounts == 0..MaxItems
ItemHeights == 1..MaxItemHeight
ContainerHeights == 0..MaxContainerHeight
Overscans == {0, 1, 5}

\* items of the given length, each different from the others
ItemsOfLength(n) == [i \in 1..n |-> [id |-> 100 + i]]

Smaller(a, b) == IF a < b THEN a ELSE b
Larger(a, b) == IF a > b THEN a ELSE b

\* Math.floor(a / b) and Math.ceil(a / b), for b > 0
Floor(a, b) == a \div b
Ceil(a, b) == -((-a) \div b)

\* Array.prototype.slice(start, end)
ArraySlice(s, start, end) ==
    LET len == Len(s)
        k == IF start < 0 THEN Larger(len + start, 0) ELSE Smaller(start, len)
        final == IF end < 0 THEN Larger(len + end, 0) ELSE Smaller(end, len)
    IN  SubSeq(s, k + 1, final)

totalHeight == Len(listItems) * itemHeight
startIndex == Floor(scrollTop, itemHeight)
endIndex ==
    Smaller(startIndex + Ceil(containerHeight, itemHeight) + overscan,
            Len(listItems))
visibleItems == ArraySlice(listItems, startIndex, endIndex)

\* the calls renderItem(item, startIndex + index) of the current render
renderItemCalls ==
    [k \in 1..Len(visibleItems) |->
        [item |-> visibleItems[k], index |-> startIndex + (k - 1)]]

\* the largest scrollTop the browser gives the container: the content is
\* totalHeight high, the container containerHeight
MaxScrollTop == Larger(totalHeight - containerHeight, 0)

\* handleScroll: the user scrolled to position s
HandleScroll(s) ==
    /\ s # scrollTop
    /\ s <= MaxScrollTop
    /\ scrollTop' = s
    /\ UNCHANGED <<listItems, itemHeight, containerHeight, overscan>>
    /\ UNCHANGED vOthers

\* The component at its first render.
ListMounted(n, h, c, o) ==
    /\ listItems = ItemsOfLength(n)
    /\ itemHeight = h
    /\ containerHeight = c
    /\ overscan = o
    /\ scrollTop = 0

ListStart == ListMounted(0, 1, 0, 5)

-----------------------------------------------------------------------------
(***************************************************************************)
(* Server: the Express application (index.ts).  A path is the sequence of  *)
(* its segments; a layer of the application is a route, a router mounted   *)
(* on a prefix, or a handler for every path.  Layers are tried in the      *)
(* order of their registration.                                            *)
(***************************************************************************)

\* the routes of routes/ai.ts
AiRouterLayers ==
    << [method |-> "POST", path |-> <<"generate-response">>,
        handler |-> "ai.generate-response"],
       [method |-> "POST", path |-> <<"analyze-sentiment">>,
        handler |-> "ai.analyze-sentiment"],
       [method |-> "POST", path |-> <<"evaluate-response">>,
        handler |-> "ai.evaluate-response"],
       [method |-> "GET", path |-> <<"health">>, handler |-> "ai.health"] >>

\* the routes of routes/knowledge.ts
KnowledgeRouterLayers ==
    << [method |-> "POST", path |-> <<"search">>,
        handler |-> "knowledge.search"],
       [method |-> "GET", path |-> <<"articles">>,
        handler |-> "knowledge.articles"],
       [method |-> "GET", path |-> <<"categories">>,
        handler |-> "knowledge.categories"],
       [method |-> "GET", path |-> <<"health">>,
        handler |-> "knowledge.health"] >>

\* the layers registered on app after the middleware, in order
AppLayers ==
    << [kind |-> "route", method |-> "GET", path |-> <<"health">>,
        handler |-> "health"],
       [kind |-> "router", mount |-> <<"api", "ai">>,
        routes |-> AiRouterLayers],
       [kind |-> "route", method |-> "GET", path |-> <<"api">>,
        handler |-> "docs"],
       [kind |-> "all", handler |-> "notFound"] >>

IsPrefix(prefix, path) ==
    /\ Len(prefix) <= Len(path)
    /\ SubSeq(path, 1, Len(prefix)) = prefix

\* the handler of the first route that matches, or "next"
RECURSIVE RouteMatch(_, _, _)
RouteMatch(routes, method, path) ==
    IF routes = <<>> THEN "next"
    ELSE IF Head(routes).method = method /\ Head(routes).path = path
         THEN Head(routes).handler
         ELSE RouteMatch(Tail(routes), method, path)

\* the handler that the layers give the request to
RECURSIVE LayerMatch(_, _, _)
LayerMatch(layers, method, path) ==
    IF layers = <<>> THEN "finalhandler"
    ELSE LET layer == Head(layers)
             found ==
                 IF layer.kind = "all" THEN layer.handler
                 ELSE IF layer.kind = "route"
                 THEN RouteMatch(<<layer>>, method, path)
                 ELSE IF IsPrefix(layer.mount, path)
                 THEN RouteMatch(layer.routes, method,
                                 SubSeq(path, Len(layer.mount) + 1, Len(path)))
                 ELSE "next"
         IN  IF found = "next"
             THEN LayerMatch(Tail(layers), method, path)
             ELSE found

\* the rate limiter answers a request over the limit itself
Dispatch(method, path, withinLimit) ==
    IF withinLimit THEN LayerMatch(AppLayers, method, path) ELSE "rateLimit"

\* the requests sent to the application
Methods == {"GET", "POST"}
Paths ==
    { <<"health">>, <<"api">>, <<"unknown">> }
    \cup {<<"api", "ai">> \o AiRouterLayers[i].path : i \in DOMAIN AiRouterLayers}
    \cup {<<"api", "knowledge">> \o KnowledgeRouterLayers[i].path :
              i \in DOMAIN KnowledgeRouterLayers}

\* The application receives a request and a handler answers it.
AppRequest(method, path, withinLimit) ==
    /\ Len(handled) < MaxRequests
    /\ handled' = Append(handled,
                         [method |-> method, path |-> path,
                          withinLimit |-> withinLimit,
                          handler |-> Dispatch(method, path, withinLimit)])
    /\ UNCHANGED pOthers

AppStart == handled = <<>>

\* The system as it starts: no service built, no request in progress, the
\* client's caches empty with the default options.
Init ==
    /\ KInit
    /\ AInit
    /\ CacheStart
    /\ options = DefaultOptions
    /\ DebounceStart("x", 1)
    /\ AppStart
    /\ ListStart
    /\ FilterStart
    /\ SearchHookStart
    /\ CallbackStart

(***************************************************************************)
(* SpecAI: the AI router on its own, every provider reply.                 *)
(***************************************************************************)
AiNext ==
    \/ \E route \in AiRoutes : \E body \in AiBodies(route) : AiRejected(route, body)
    \/ \E route \in AiRoutes : \E body \in AiBodies(route) : AiRequest(route, body)
    \/ \E reply \in Replies : AiProviderReplies(reply)
    \/ AiRelease

SpecAI == Init /\ [][AiNext]_vars

(***************************************************************************)
(* SpecServer: both routers, one request each at a time.                   *)
(***************************************************************************)
ServerNext ==
    \/ \E route \in AiRoutes : \E body \in AiBodies(route) : AiRejected(route, body)
    \/ \E route \in AiRoutes : \E body \in AiBodies(route) : AiRequest(route, body)
    \/ \E reply \in FewReplies : AiProviderReplies(reply)
    \/ AiRelease
    \/ \E body \in InvalidSearchBodies : KSearchRejected("s1", body)
    \/ \E body \in PlainSearchBodies : KSearchRequest("s1", body)
    \/ \E callOk \in BOOLEAN : KQueryEmbedded("s1", <<1, 0>>, callOk)
    \/ \E callOk \in BOOLEAN : KArticleEmbedded("s1", callOk)
    \/ KSleepDone("s1")
    \/ KRank("s1")
    \/ KRelease("s1")

SpecServer == Init /\ [][ServerNext]_vars

-----------------------------------------------------------------------------
(***************************************************************************)
(* SpecSearch: one request at a time, every kind of body and every         *)
(* knowledge endpoint that returns articles.                               *)
(***************************************************************************)
SearchNext ==
    \/ \E body \in SearchBodies : KSearchRejected("s1", body)
    \/ \E body \in SearchBodies : KSearchRequest("s1", body)
    \/ \E v \in QueryVectors, callOk \in BOOLEAN : KQueryEmbedded("s1", v, callOk)
    \/ \E callOk \in BOOLEAN : KArticleEmbedded("s1", callOk)
    \/ KSleepDone("s1")
    \/ KRank("s1")
    \/ KGetArticles("s1")
    \/ \E id \in 1..(NumArticles + 1) : KGetArticle("s1", id)
    \/ \E a \in Articles : KGetCategoryArticles("s1", ArticleCategory(a))
    \/ KRelease("s1")

SpecSearch == Init /\ [][SearchNext]_vars

(***************************************************************************)
(* SpecKnowledge: searches in progress at the same time.                   *)
(***************************************************************************)
KnowledgeNext ==
    \/ \E p \in KSlots, body \in PlainSearchBodies : KSearchRequest(p, body)
    \/ \E p \in KSlots, callOk \in BOOLEAN : KQueryEmbedded(p, <<1, 0>>, callOk)
    \/ \E p \in KSlots, callOk \in BOOLEAN : KArticleEmbedded(p, callOk)
    \/ \E p \in KSlots : KSleepDone(p)
    \/ \E p \in KSlots : KRank(p)
    \/ \E p \in KSlots : KRelease(p)

SpecKnowledge == Init /\ [][KnowledgeNext]_vars

-----------------------------------------------------------------------------
(***************************************************************************)
(* Claims about the knowledge service.                                     *)
(***************************************************************************)
\* A search slot has answered with the list searchArticles returned.
SearchAnswered(p) ==
    /\ ks[p].pc = "done"
    /\ ks[p].route = "search"
    /\ kresp[p] # <<>>
    /\ kresp[p][1].status = 200

\* C1: a search whose embedding calls all succeeded returns articles that
\* (a) score at least minRelevance, (b) lie in the requested categories,
\* (c) come in non-increasing score order, (d) number at most `limit`, and
\* (e) leave out an article that satisfies (a) and (b) only when `limit`
\* returned articles score at least as high.
C1_SearchContract ==
    \A p \in KSlots :
        (SearchAnswered(p) /\ ks[p].ok) =>
            LET res == kresp[p][1].data
                req == ks[p].request
                score(a) == calculateCosineSimilarity(ks[p].queryEmbedding, embedding[a])
                eligible(a) ==
                    /\ ~ScoreBelow(score(a), req.minRelevance)
                    /\ Len(req.categories) > 0 =>
                           ArticleCategory(a) \in Range(req.categories)
            IN  /\ \A i \in DOMAIN res :
                       ~ScoreBelow(res[i].relevanceScore, req.minRelevance)
                /\ Len(req.categories) > 0 =>
                       \A i \in DOMAIN res : res[i].category \in Range(req.categories)
                /\ \A i, j \in DOMAIN res :
                       i < j => ~ScoreLess(res[i].relevanceScore, res[j].relevanceScore)
                /\ Len(res) <= req.limit
                /\ \A a \in Articles :
                       (eligible(a) /\ \A i \in DOMAIN res : res[i].id # a) =>
                           Cardinality({i \in DOMAIN res :
                               ~ScoreLess(res[i].relevanceScore, score(a))}) >= req.limit

\* C4: no article in a response of a knowledge endpoint carries an embedding.
C4_NoEmbeddingSent ==
    \A p \in KSlots :
        \A n \in DOMAIN kresp[p] :
            kresp[p][n].status = 200 =>
                \A i \in DOMAIN kresp[p][n].data :
                    "embedding" \notin DOMAIN kresp[p][n].data[i]

\* C7: no article embedding is requested before the first search, and a
\* search that began after some search had completed with every embedding
\* obtained, and that ran on its own, sent one request for its query text and
\* none for an article.
C7_LazyThenKept ==
    /\ searchCalls = 0 => \A a \in Articles : askCount[a] = 0
    /\ queryAsks = searchCalls
    /\ \A p \in KSlots :
           (SearchAnswered(p) /\ ks[p].afterSettled /\ ks[p].alone) =>
               ks[p].articleAsks = 0

\* C8: between any two article-embedding requests a complete sleep occurs.
C8_RequestsSpaced == ~unspaced

-----------------------------------------------------------------------------
(***************************************************************************)
(* Claims about the handlers of the two routers.                           *)
(***************************************************************************)
InvalidRequestData ==
    [status |-> 400, success |-> FALSE, error |-> "Invalid request data"]

\* the requests sent to the provider and the state of the services
ProviderAndServices ==
    <<chatCalls, queryAsks, askCount, embedding, knowledgeService, openAIService>>

IsText(k) == k \notin {"fence-json", "fence", "space"}
UnusableReply(reply) ==
    \/ reply.kind \in {"throws", "noContent"}
    \/ reply.kind = "text" /\ SelectSeq(reply.text, IsText) # <<"json">>

\* C6: when the provider's reply is unusable, analyzeSentiment returns the
\* neutral value and evaluateResponseQuality the all-sevens value, and the
\* endpoint answers success = true with it.
C6_FallbackNeverFails ==
    (/\ ai.pc = "done"
     /\ ai.route \in {"analyze-sentiment", "evaluate-response"}
     /\ ai.reply.kind # "none"
     /\ UnusableReply(ai.reply))
        => airesp = <<[status |-> 200, success |-> TRUE,
                       data |-> IF ai.route = "analyze-sentiment"
                                THEN [score |-> 0, label |-> "neutral",
                                      confidence |-> <<1, 2>>,
                                      emotions |-> [anger |-> 0, joy |-> 0, fear |-> 0,
                                                    sadness |-> 0, surprise |-> 0]]
                                ELSE [overall |-> 7, clarity |-> 7, completeness |-> 7,
                                      tone |-> 7, accuracy |-> 7, actionability |-> 7,
                                      suggestions |->
                                          <<"Unable to evaluate response quality">>]]>>

\* The quality evaluation was answered after a fenced reply that is not JSON.
C6_Witness ==
    /\ ai.pc = "done"
    /\ ai.route = "evaluate-response"
    /\ ai.reply = [kind |-> "text", text |-> <<"fence-json", "other", "fence">>]
    /\ airesp # <<>>

-----------------------------------------------------------------------------
(***************************************************************************)
(* SpecUseCache: one useCache hook with a positive ttl, on each storage.   *)
(***************************************************************************)
InitUseCache ==
    /\ KInit
    /\ AInit
    /\ CacheStart
    /\ options \in [ttl : {1, 2}, storage : Storages]
    /\ DebounceStart("x", 1)
    /\ AppStart
    /\ ListStart
    /\ FilterStart
    /\ SearchHookStart
    /\ CallbackStart

UseCacheNext ==
    \/ \E data \in Data : \E writeOk \in BOOLEAN : setCache(data, writeOk)
    \/ getCache
    \/ clearCache
    \/ Tick

SpecUseCache == InitUseCache /\ [][UseCacheNext]_vars

(***************************************************************************)
(* SpecWithCache: a function wrapped by withCache, called by two callers   *)
(* whose calls may overlap, on each storage and with and without expiry.   *)
(***************************************************************************)
InitWithCache ==
    /\ KInit
    /\ AInit
    /\ CacheStart
    /\ options \in [ttl : {0, 2}, storage : Storages]
    /\ DebounceStart("x", 1)
    /\ AppStart
    /\ ListStart
    /\ FilterStart
    /\ SearchHookStart
    /\ CallbackStart

WithCacheNext ==
    \/ \E w \in Callers : \E arg \in Args : WcCall(w, arg)
    \/ \E w \in Callers : \E result \in Data : \E writeOk \in BOOLEAN :
           WcResolved(w, result, writeOk)
    \/ \E w \in Callers : WcRejected(w)
    \/ \E w \in Callers : WcRelease(w)
    \/ Tick

SpecWithCache == InitWithCache /\ [][WithCacheNext]_vars

(***************************************************************************)
(* SpecDebounce: one useDebounce hook, each initial value and delay.       *)
(***************************************************************************)
InitDebounce ==
    /\ KInit
    /\ AInit
    /\ CacheStart
    /\ options = DefaultOptions
    /\ \E v \in Inputs : \E d \in Delays : DebounceStart(v, d)
    /\ AppStart
    /\ ListStart
    /\ FilterStart
    /\ SearchHookStart
    /\ CallbackStart

DebounceNext ==
    \/ \E v \in Inputs : SetValue(v)
    \/ \E t \in timers : TimerFires(t)
    \/ Unmount
    \/ Tick

SpecDebounce == InitDebounce /\ [][DebounceNext]_vars

-----------------------------------------------------------------------------
(***************************************************************************)
(* Claims about the client's hooks.                                        *)
(***************************************************************************)
\* C2: with a ttl t > 0, getCache returns the value given to the last
\* setCache when an entry exists under the key and the time since the last
\* setCache is at most t, and null in every other case.
C2_GetCache ==
    lastOp = "get" =>
        getResult = IF /\ getHadEntry
                       /\ lastSet # <<>>
                       /\ now - lastSet[1].time <= options.ttl
                    THEN lastSet[1].data
                    ELSE "null"

\* an entry that has not outlived its ttl, in the sense of the wrapper
Unexpired(entry) ==
    /\ entry # <<>>
    /\ (entry[1].ttl = 0 \/ now - entry[1].timestamp < entry[1].ttl)

CallBegins(w) == wc[w].pc = "idle" /\ wc'[w].pc # "idle"

FnRejects(w) == wc[w].pc = "fetching" /\ wc'[w].fn.kind = "rejected"

\* C10 as stated: when the function rejects, the call resolves with the data
\* of the entry that exists under the key, if any, and leaves it unchanged;
\* it rejects only when no entry exists under the key.
C10_StaleOrThrow ==
    [][\A w \in Callers :
        FnRejects(w) =>
            LET entry == CacheLookup(getCacheKey(wc[w].arg))
            IN  /\ wc'[w].outcome = IF entry # <<>>
                                    THEN [kind |-> "resolved", data |-> entry[1].data]
                                    ELSE [kind |-> "rejected"]
                /\ UNCHANGED <<memoryCache, webStorage>>
      ]_vars

\* C10, amended: when the function rejects, the call resolves with the data
\* of the entry it read under the key when it began, if it read one, however
\* long expired, and leaves the storages unchanged; it rejects only when it
\* read no entry.
C10_StaleOrThrowAmended ==
    [][\A w \in Callers :
        /\ CallBegins(w) => wc'[w].cache = CacheLookup(getCacheKey(wc'[w].arg))
        /\ wc[w].pc = "fetching" => wc'[w].pc = "idle" \/ wc'[w].cache = wc[w].cache
        /\ FnRejects(w) =>
              /\ wc'[w].outcome = IF wc[w].cache # <<>>
                                  THEN [kind |-> "resolved",
                                        data |-> wc[w].cache[1].data]
                                  ELSE [kind |-> "rejected"]
              /\ UNCHANGED <<memoryCache, webStorage>>
      ]_vars

\* The function rejected and the call resolved with an entry that had
\* outlived its ttl.
C10_Witness ==
    /\ wc["w1"].pc = "done"
    /\ wc["w1"].fn.kind = "rejected"
    /\ wc["w1"].outcome.kind = "resolved"
    /\ wc["w1"].cache # <<>>
    /\ wc["w1"].cache[1].ttl > 0
    /\ now - wc["w1"].cache[1].timestamp > wc["w1"].cache[1].ttl

ReturnedValueChanges == debouncedValue' # debouncedValue

\* C3 as stated: the returned value changes to v only when the input has
\* been v for at least delay without a break, and a value of the input that
\* was replaced before delay had elapsed is never returned.
C3_Debounced ==
    /\ [][ReturnedValueChanges =>
             /\ value = debouncedValue'
             /\ now - valueSince >= delay]_vars
    /\ [](debouncedStint \notin shortStints)

\* C3, amended: the returned value changes to v only when the input has been
\* v for at least delay without a break, and a value of the input that was
\* replaced before delay had elapsed is never returned, unless it is the
\* value the hook was mounted with.
C3_DebouncedAmended ==
    /\ [][ReturnedValueChanges =>
             /\ value = debouncedValue'
             /\ now - valueSince >= delay]_vars
    /\ [](debouncedStint \in shortStints => debouncedStint = 1)

\* The returned value was taken from a later stay of the input, after a stay
\* that was too short had been passed over.
C3_Witness ==
    /\ debouncedStint = 3
    /\ 2 \in shortStints
    /\ debouncedValue = value

-----------------------------------------------------------------------------
(***************************************************************************)
(* SpecCallback: one useDebounceCallback hook, each delay.                 *)
(***************************************************************************)
InitCallback ==
    /\ KInit
    /\ AInit
    /\ CacheStart
    /\ options = DefaultOptions
    /\ DebounceStart("x", 1)
    /\ AppStart
    /\ ListStart
    /\ FilterStart
    /\ SearchHookStart
    /\ \E d \in Delays : CallbackMounted(d)

CallbackNext ==
    \/ \E args \in CbArgs : CbCall(args)
    \/ CbRender
    \/ \E t \in cbTimers : CbTimerFires(t)
    \/ CbUnmount
    \/ CbTick

SpecCallback == InitCallback /\ [][CallbackNext]_vars

\* the call is the last of its burst: no call followed it within the delay
LastOfBurst(i) ==
    i = Len(cbCalls) \/ cbCalls[i + 1].time - cbCalls[i].time >= cbDelay

\* C11: of the calls of the debounced function that follow one another by
\* less than delay, only the last makes the callback run, once, delay after
\* that call and with its arguments, also when calls come before the next
\* render.
C11_OncePerBurst ==
    /\ \A j \in 1..Len(cbRuns) :
          /\ LastOfBurst(cbRuns[j].call)
          /\ cbRuns[j].time = cbCalls[cbRuns[j].call].time + cbDelay
          /\ cbRuns[j].args = cbCalls[cbRuns[j].call].args
    /\ \A j, k \in 1..Len(cbRuns) : cbRuns[j].call = cbRuns[k].call => j = k
    /\ \A i \in 1..Len(cbCalls) :
          (cbMounted /\ LastOfBurst(i) /\ now > cbCalls[i].time + cbDelay)
              => \E j \in 1..Len(cbRuns) : cbRuns[j].call = i

-----------------------------------------------------------------------------
(***************************************************************************)
(* SpecSearchHook: one component using useOptimizedSearch, with and        *)
(* without caching of the results.                                         *)
(***************************************************************************)
InitSearchHook ==
    /\ KInit
    /\ AInit
    /\ CacheStart
    /\ options = DefaultOptions
    /\ DebounceStart("x", 1)
    /\ AppStart
    /\ ListStart
    /\ FilterStart
    /\ CallbackStart
    /\ \E caching \in BOOLEAN : SearchHookMounted(caching)

SearchHookNext ==
    \/ \E q \in Queries : SetQuery(q)
    \/ SearchTimerFires
    \/ SearchRender
    \/ SearchEffects
    \/ \E c \in inFlight : \E writeOk \in BOOLEAN : SearchResolved(c, writeOk)
    \/ \E c \in inFlight : SearchRejected(c)
    \/ RefreshSearch
    \/ ClearSearch
    \/ SearchUnmount
    \/ Tick

SpecSearchHook == InitSearchHook /\ [][SearchHookNext]_vars

HookState == <<results, isSearching, hasSearched, error>>

\* C12: once the component has unmounted, a search call that resolves or
\* rejects changes none of results, isSearching, hasSearched and error, and
\* writes nothing to the cache.
C12_NothingAfterUnmount ==
    [][(~isMountedRef /\ inFlight' # inFlight) =>
          /\ UNCHANGED HookState
          /\ UNCHANGED <<sessionSearch, searchCachedData, memoryCache, webStorage>>
      ]_vars

\* A search call settled after the unmount, and all calls have settled.
C12_Witness ==
    /\ ~isMountedRef
    /\ settledLate
    /\ inFlight = {}
    /\ searchLog # <<>>

\* C16 (the bound on the calls): with a query that is set once and then
\* stays, and a searchFunction that resolves, searchFunction is called at
\* most once, and not at all when the query is shorter than minSearchLength.
C16_AtMostOneCall ==
    (queryChanges <= 1 /\ ~byHand /\ ~anyRejected) =>
        /\ Len(searchLog) <= 1
        /\ Len(query) < SearchOptions.minSearchLength => searchLog = <<>>

\* C17: whenever the hook has rendered its state, no search call is
\* outstanding, hasSearched is true and there is no error, results is the
\* list returned for the search started last.
C17_LatestResults ==
    (~pendingRender /\ inFlight = {} /\ hasSearched /\ error = "null") =>
        /\ lastSearch # <<>>
        /\ results = <<[match |-> lastSearch[1]]>>

\* C20: searchFunction is never called with a query shorter than
\* minSearchLength; a search that the user did not ask for by hand is started
\* only when the debounced query equals the query, and for that query; and
\* when the search effect finds the debounced query equal to the query and
\* too short, results are emptied and hasSearched and error reset.
C20_WhenToSearch ==
    /\ [](\A i \in 1..Len(searchLog) :
              Len(searchLog[i]) >= SearchOptions.minSearchLength)
    /\ [][(searchLog' # searchLog /\ byHand' = byHand) =>
              /\ debouncedQuery = query
              /\ searchLog'[Len(searchLog')] = query]_vars
    /\ [][(/\ phase = "effects" /\ phase' = "idle"
           /\ debouncedQuery = query
           /\ Len(query) < SearchOptions.minSearchLength) =>
              /\ results' = <<>>
              /\ hasSearched' = FALSE
              /\ error' = "null"]_vars

\* A search was made, then the query was emptied and the empty query has
\* been dealt with.
C20_Witness ==
    /\ searchLog # <<>>
    /\ queryChanges = 2
    /\ query = <<>> /\ debouncedQuery = <<>>
    /\ phase = "idle" /\ ~byHand
    /\ results = <<>> /\ ~hasSearched

\* useOptimizedFilter mounted with an empty query, for every list of items,
\* minSearchLength and delay
InitFilter ==
    /\ KInit
    /\ AInit
    /\ CacheStart
    /\ options = DefaultOptions
    /\ \E d \in Delays : DebounceStart(<<>>, d)
    /\ ListStart
    /\ AppStart
    /\ SearchHookStart
    /\ CallbackStart
    /\ \E l \in ItemLists : \E m \in MinLengths : FilterMounted(l, m)

FilterNext ==
    \/ \E q \in FilterQueries : FilterSetQuery(q)
    \/ \E t \in timers : TimerFires(t)
    \/ Unmount
    \/ Tick

\* Time passes and a timer that is due fires.
SpecFilter ==
    /\ InitFilter
    /\ [][FilterNext]_vars
    /\ WF_vars(Tick)
    /\ WF_vars(\E t \in timers : TimerFires(t))

RECURSIVE IsSubList(_, _)
IsSubList(s, l) ==
    IF s = <<>> THEN TRUE
    ELSE IF l = <<>> THEN FALSE
    ELSE IF Head(s) = Head(l) THEN IsSubList(Tail(s), Tail(l))
    ELSE IsSubList(s, Tail(l))

RECURSIVE Satisfying(_, _)
Satisfying(l, q) ==
    IF l = <<>> THEN <<>>
    ELSE (IF filterFunction(Head(l), q) THEN <<Head(l)>> ELSE <<>>)
             \o Satisfying(Tail(l), q)

\* C13: filteredItems is always an order-preserving sub-list of items; when
\* isFiltering is false it is exactly the items satisfying the filter for the
\* query, in order, or all items when the query is shorter than
\* minSearchLength; and if the query stops changing while the component
\* stays mounted, isFiltering becomes false and stays false.
C13_Filtered ==
    /\ [](IsSubList(filteredItems, items))
    /\ [](~isFiltering =>
            filteredItems = IF Len(value) < minSearchLength
                            THEN items
                            ELSE Satisfying(items, value))
    /\ \A q \in FilterQueries :
           <>[](mounted /\ value = q) => <>[](~isFiltering)

\* The query was changed, the debounced query has caught up, and the filter
\* keeps some of the items and drops others.
C13_Witness ==
    /\ mounted
    /\ stint > 1
    /\ ~isFiltering
    /\ minSearchLength > 0
    /\ Len(value) >= minSearchLength
    /\ filteredItems # <<>>
    /\ Len(filteredItems) < Len(items)

\* VirtualizedList mounted with every combination of the props
InitList ==
    /\ KInit
    /\ AInit
    /\ CacheStart
    /\ options = DefaultOptions
    /\ DebounceStart("x", 1)
    /\ AppStart
    /\ SearchHookStart
    /\ CallbackStart
    /\ FilterStart
    /\ \E n \in ItemCounts : \E h \in ItemHeights :
         \E c \in ContainerHeights : \E o \in Overscans :
            ListMounted(n, h, c, o)

ListNext == \E s \in 0..(MaxItems * MaxItemHeight) : HandleScroll(s)

SpecList == InitList /\ [][ListNext]_vars

\* item i's extent [i*itemHeight, (i+1)*itemHeight) meets the viewport
\* [scrollTop, scrollTop + containerHeight)
InViewport(i) ==
    Larger(i * itemHeight, scrollTop)
        < Smaller((i + 1) * itemHeight, scrollTop + containerHeight)

\* C14: every item whose extent meets the viewport is rendered, and every
\* call of renderItem gets the item together with its index in items.
C14_ViewportRendered ==
    /\ \A i \in 0..(Len(listItems) - 1) :
          InViewport(i) =>
             \E k \in 1..Len(renderItemCalls) : renderItemCalls[k].index = i
    /\ \A k \in 1..Len(renderItemCalls) :
          /\ renderItemCalls[k].index \in 0..(Len(listItems) - 1)
          /\ renderItemCalls[k].item = listItems[renderItemCalls[k].index + 1]

AppNext ==
    \E method \in Methods : \E path \in Paths : \E withinLimit \in BOOLEAN :
        AppRequest(method, path, withinLimit)

SpecApp == Init /\ [][AppNext]_vars

\* C15: a POST request to /api/knowledge/search that the rate limiter lets
\* through is answered by the knowledge router's search handler, never by
\* the catch-all handler (404, Endpoint not found).
C15_KnowledgeSearchRouted ==
    \A i \in 1..Len(handled) :
        (/\ handled[i].method = "POST"
         /\ handled[i].path = <<"api", "knowledge", "search">>
         /\ handled[i].withinLimit)
        => /\ handled[i].handler = "knowledge.search"
           /\ handled[i].handler # "notFound"

-----------------------------------------------------------------------------
(***************************************************************************)
(* SpecEmbeddingsOk: searches in progress at the same time, with a         *)
(* provider whose embedding calls all succeed.                             *)
(***************************************************************************)
EmbeddingsOkNext ==
    \/ \E p \in KSlots, body \in PlainSearchBodies : KSearchRequest(p, body)
    \/ \E p \in KSlots, v \in QueryVectors : KQueryEmbedded(p, v, TRUE)
    \/ \E p \in KSlots : KArticleEmbedded(p, TRUE)
    \/ \E p \in KSlots : KSleepDone(p)
    \/ \E p \in KSlots : KRank(p)
    \/ \E p \in KSlots : KRelease(p)

SpecEmbeddingsOk == Init /\ [][EmbeddingsOkNext]_vars

\* C18: while every embedding request succeeds, the provider is asked for
\* the embedding of each article at most once.
C18_AskedOnce == \A a \in Articles : askCount[a] <= 1

\* C19: a search whose query-embedding call failed is answered with success
\* and an empty list.
C19_EmptyOnQueryFailure ==
    \A p \in KSlots :
        (SearchAnswered(p) /\ ks[p].queryEmbedding = <<>>) =>
            /\ Len(kresp[p]) = 1
            /\ kresp[p][1].data = <<>>

=============================================================================
